---- MODULE Spec2Model ----
(***************************************************************************)
(* Booking lifecycle and provider ledger of the FixIt marketplace backend. *)
(*                                                                         *)
(* One booking, its client, its provider, an admin and an unrelated user   *)
(* are modelled.  Every route handler is split at its awaits: the document *)
(* it loaded (findById) is a private in-memory copy, the handler's checks  *)
(* and assignments act on that copy, and save() writes the modified paths  *)
(* of the copy back to the stored document ($set per path, $push for an    *)
(* array push).  Handlers of different requests interleave at the awaits.  *)
(* Time is counted in hours.  Schema validation is taken to accept every   *)
(* document the handlers build.  A status-history entry is reduced to the  *)
(* status it records.                                                      *)
(*                                                                         *)
(* Spec       every booking and wallet route, any caller, one request at a *)
(*            time                                                         *)
(* RaceSpec   the booking and wallet routes called by the parties of the   *)
(*            booking, two requests in flight                              *)
(* PaySpec    the payment routes and the Stripe webhook                    *)
(* FairSpec   the booking routes called one at a time while the            *)
(*            confirmation window goes by, every started handler running   *)
(*            to its end                                                   *)
(***************************************************************************)
EXTENDS Integers, Sequences, FiniteSets, TLC

VARIABLES
  booking,    \* the stored Booking document ("none" status: not created yet)
  provider,   \* the stored provider User document (activation flags, wallet)
  payments,   \* the stored Payment documents, in creation order
  req,        \* per process: the request it is handling and its in-memory copies
  resp,       \* the last response sent
  now,        \* the clock, in hours
  audit,      \* history: what the handlers have applied so far
  sockets,    \* per socket: the user connected through it, "none" when closed
  activeConnections  \* the Map of the socket handler: per user a socket id, 0 for no entry

vars == <<booking, provider, payments, req, resp, now, audit, sockets, activeConnections>>

---------------------------------------------------------------------------
\* Bounds of the model

MaxHist == 5        \* status-history entries per booking
MaxFineTime == 1    \* hours the clock may advance one hour at a time
MaxPayments == 3    \* Payment documents
MaxDeliveries == 2  \* webhook deliveries per payment
MaxSockets == 3      \* socket connections open at a time
MaxCancelTime == 5  \* hours of the scheduled dates and clocks canBeCancelled() is called with

\* Program constants

PlatformFee == 5
AutoConfirmHours == 48
CancelWindowHours == 2
ActivationFee == 20
BookingFee == 5
MinWithdrawal == 50
MinWithdrawalFee == 2
WithdrawalFeePercent == 2

NoTime == 0 - 1
MaxTime == MaxFineTime + AutoConfirmHours

\* Inputs
Users == {"client", "provider", "admin", "other"}
Parties == {"client", "provider"}
ServicePrices == {91, 92}
AddOnsPrices == {10}
ScheduledDates == {3}
WithdrawAmounts == {40, 100}
RefundAmounts == {0, 10}
PaymentMethods == {"stripe", "paypal", "vodafone_cash"}

\* Processes: the slots that serve requests
Slots == {1, 2}
Procs == Slots

Max(a, b) == IF a >= b THEN a ELSE b

---------------------------------------------------------------------------
\* Documents

\* role of each user (userSchema.role)
roleOf(u) ==
  CASE u = "provider" -> "provider"
    [] u = "admin" -> "admin"
    [] OTHER -> "client"

\* a Booking document before creation
NoBooking ==
  [ client |-> "none", provider |-> "none", service |-> "none",
    status |-> "none", statusHistory |-> <<>>, providerResponse |-> "none",
    completedAt |-> NoTime, autoConfirmAt |-> NoTime,
    clientConfirmed |-> FALSE, confirmedAt |-> NoTime, confirmationMethod |-> "none",
    paymentStatus |-> "pending",
    isDisputed |-> FALSE, disputedBy |-> "none", resolved |-> FALSE,
    refundAmount |-> 0,
    cancelled |-> FALSE,
    scheduledDate |-> 0,
    servicePrice |-> 0, addOnsPrice |-> 0, platformFee |-> 0, totalAmount |-> 0 ]

\* the socket ids, and the users that connect
SocketIds == 1..MaxSockets
SocketUsers == {"client", "provider", "admin"}

\* no socket open; the empty Map
NoSockets == [s \in SocketIds |-> "none"]
NoConnections == [u \in SocketUsers |-> 0]

\* the provider User document with the schema defaults
NewProvider ==
  [ isActivated |-> FALSE, activationFeePaid |-> FALSE,
    balance |-> 0, pendingBalance |-> 0, totalEarnings |-> 0 ]

\* an in-memory copy of a stored document, with the paths modified since the load
Load(stored) == [doc |-> stored, dirty |-> {}]

\* assignment to a path of an in-memory copy: a changed value marks the path modified
SetPath(m, f, v) ==
  IF m.doc[f] = v THEN m
  ELSE [doc |-> [m.doc EXCEPT ![f] = v], dirty |-> m.dirty \cup {f}]

\* statusHistory.push(entry) on an in-memory copy
PushHistory(m, entry) ==
  [doc |-> [m.doc EXCEPT !["statusHistory"] = Append(@, entry)],
   dirty |-> m.dirty \cup {"statusHistory"}]

\* save(): the modified paths are written over the stored document, the pushed
\* history entry is appended to the stored array
SaveDoc(stored, m) ==
  [f \in DOMAIN stored |->
     IF f \notin m.dirty THEN stored[f]
     ELSE IF f = "statusHistory"
          THEN Append(stored[f], m.doc[f][Len(m.doc[f])])
          ELSE m.doc[f]]

\* the paths of a booking that no handler assigns after creation
Pricing == {"servicePrice", "addOnsPrice", "platformFee", "totalAmount"}

\* the references to the parties and the service of a booking
Refs == {"client", "provider", "service"}

\* what a handler still uses of its booking copy once its checks are done: the
\* modified paths, the pushed history entry and the pricing
TrimBooking(m) ==
  [doc |-> [f \in DOMAIN m.doc |->
              IF f = "statusHistory"
              THEN (IF f \in m.dirty THEN <<m.doc[f][Len(m.doc[f])]>> ELSE <<>>)
              ELSE IF f \in m.dirty \cup Pricing THEN m.doc[f] ELSE NoBooking[f]],
   dirty |-> m.dirty]

\* what a handler still uses of its user copy once the wallet method has run
TrimUser(m) ==
  [doc |-> [f \in DOMAIN m.doc |-> IF f \in m.dirty THEN m.doc[f] ELSE NewProvider[f]],
   dirty |-> m.dirty]

NoDoc == Load(NoBooking)
NoUser == Load(NewProvider)

Idle == [op |-> "none", caller |-> "none", pc |-> "idle", method |-> "none",
         bdoc |-> NoDoc, udoc |-> NoUser, amt |-> 0]

\* a Payment document
NewPayment(type, status, amount, method, transactionId, providerAmount) ==
  [type |-> type, status |-> status, amount |-> amount, method |-> method,
   transactionId |-> transactionId, providerAmount |-> providerAmount,
   refund |-> 0]

---------------------------------------------------------------------------
\* Model methods

\* userSchema.methods.isProviderActivated
isProviderActivated(u) == u.isActivated /\ u.activationFeePaid

\* a faulty credit: the earnings go to balance and totalEarnings at once, as
\* addEarnings does
addEarnings(m, amount) ==
  SetPath(SetPath(m, "balance", m.doc.balance + amount),
          "totalEarnings", m.doc.totalEarnings + amount)

\* userSchema.methods.addPendingEarnings
addPendingEarnings(m, amount) ==
  SetPath(m, "pendingBalance", m.doc.pendingBalance + amount)

\* a faulty transfer: the balance is credited, the pending balance is kept
confirmEarningsKeepPending(m, amount) ==
  SetPath(m, "balance", m.doc.balance + amount)

\* userSchema.methods.confirmEarnings
confirmEarnings(m, amount) ==
  SetPath(SetPath(m, "pendingBalance", m.doc.pendingBalance - amount),
          "balance", m.doc.balance + amount)

\* a faulty transition: the total is computed again, without the platform fee
updateStatusRepriced(m, newStatus, t) ==
  LET pushed == PushHistory(m, m.doc.status)
      moved == SetPath(SetPath(pushed, "status", newStatus),
                       "totalAmount", m.doc.servicePrice + m.doc.addOnsPrice)
  IN IF newStatus = "completed"
     THEN SetPath(SetPath(moved, "completedAt", t), "autoConfirmAt", t + AutoConfirmHours)
     ELSE moved

\* bookingSchema.methods.updateStatus
updateStatus(m, newStatus, t) ==
  LET pushed == PushHistory(m, m.doc.status)
      moved == SetPath(pushed, "status", newStatus)
  IN IF newStatus = "completed"
     THEN SetPath(SetPath(moved, "completedAt", t), "autoConfirmAt", t + AutoConfirmHours)
     ELSE moved

\* a faulty cancellation rule: the status is not looked at
canBeCancelledAnyStatus(b, t) == b.scheduledDate - t > CancelWindowHours

\* a faulty cancellation rule: the window's end still counts
canBeCancelledAtWindow(b, t) ==
  b.status \in {"pending", "accepted"} /\ b.scheduledDate - t >= CancelWindowHours

\* bookingSchema.methods.canBeCancelled
canBeCancelled(b, t) ==
  b.status \in {"pending", "accepted"} /\ b.scheduledDate - t > CancelWindowHours

\* bookingSchema.methods.shouldAutoConfirm
shouldAutoConfirm(b, t) ==
  /\ b.status = "completed"
  /\ ~b.clientConfirmed
  /\ b.autoConfirmAt # NoTime
  /\ t >= b.autoConfirmAt

\* a faulty fee rule: nothing is charged
calculatePlatformFeeNone(amount, feeType) == 0

\* PaymentService.calculatePlatformFee; the withdrawal amounts of the model are
\* multiples of 50 or below the floor, so that 2% of them is exact
calculatePlatformFee(amount, feeType) ==
  CASE feeType = "withdrawal" ->
         Max((amount * WithdrawalFeePercent) \div 100, MinWithdrawalFee)
    [] feeType = "booking" -> BookingFee
    [] feeType = "activation" -> ActivationFee
    [] OTHER -> 0

\* a faulty access rule: whoever is neither admin nor provider counts as the client
requireBookingAccessAnyone(u) ==
  IF roleOf(u) = "admin" THEN "admin"
  ELSE IF u = "provider" THEN "provider"
  ELSE "client"

\* requireBookingAccess: the caller's role in the booking, "admin" for an admin
\* (who passes with no booking role), "denied" for anyone else
requireBookingAccess(u) ==
  IF roleOf(u) = "admin" THEN "admin"
  ELSE IF u = "client" THEN "client"
  ELSE IF u = "provider" THEN "provider"
  ELSE "denied"

\* requireRole
requireRole(u, role) == roleOf(u) = role

\* earnings of the booking: service price plus add-ons, platform fee excluded
Earnings(b) == b.servicePrice + b.addOnsPrice

---------------------------------------------------------------------------
\* Initial state: empty store, no request in flight

Init ==
  /\ booking = NoBooking
  /\ provider = NewProvider
  /\ payments = <<>>
  /\ req = [p \in Procs |-> Idle]
  /\ resp = [op |-> "none", caller |-> "none", code |-> "none", amt |-> 0]
  /\ now = 0
  /\ audit = [confirmOk |-> 0, credited |-> 0, withdrawn |-> 0,
              delivered |-> [i \in 1..MaxPayments |-> 0]]
  /\ sockets = NoSockets
  /\ activeConnections = NoConnections

\* a response; a withdrawal response names the requested amount
RespondAmount(op, c, code, a) == resp' = [op |-> op, caller |-> c, code |-> code, amt |-> a]
Respond(op, c, code) == RespondAmount(op, c, code, 0)

\* a refused request: only the response changes
RefuseAmount(op, c, code, a) ==
  /\ RespondAmount(op, c, code, a)
  /\ UNCHANGED <<booking, provider, payments, req, now, sockets, activeConnections, audit>>
Refuse(op, c, code) == RefuseAmount(op, c, code, 0)

\* a request whose checks passed: it goes on with its in-memory copy
Proceed(p, op, c, pc, m, a) ==
  /\ req' = [req EXCEPT ![p] = [op |-> op, caller |-> c, pc |-> pc, method |-> "none",
                                bdoc |-> TrimBooking(m), udoc |-> NoUser, amt |-> a]]
  /\ UNCHANGED <<booking, provider, payments, resp, now, sockets, activeConnections, audit>>

Exists == booking.status # "none"

\* history entries stored or about to be pushed
HistoryLoad ==
  Len(booking.statusHistory)
    + Cardinality({p \in Procs : "statusHistory" \in req[p].bdoc.dirty})

\* a new request is served by the first idle slot
Free(p) == req[p].pc = "idle" /\ \A q \in Slots : q < p => req[q].pc # "idle"

CanServe(p) == Free(p) /\ Exists
CanPush(p) == CanServe(p) /\ HistoryLoad < MaxHist

CanPay ==
  Len(payments)
    + Cardinality({p \in Procs : req[p].pc \in {"act_create", "fee_create",
                                                "w_payment", "refund"}})
  < MaxPayments

---------------------------------------------------------------------------
\* POST /api/auth/pay-activation-fee

PayActivationFee(p, c) ==
  /\ Free(p)
  /\ CanPay
  /\ IF ~requireRole(c, "provider") THEN Refuse("activate", c, "forbidden")
     ELSE IF provider.activationFeePaid THEN Refuse("activate", c, "already_paid")
     ELSE /\ req' = [req EXCEPT ![p] = [Idle EXCEPT !.op = "activate", !.caller = c,
                                          !.pc = "act_create"]]
          /\ UNCHANGED <<booking, provider, payments, resp, now, sockets, activeConnections, audit>>

\* Payment.create: the record is stored with the schema's default status
ActivationCreate(p) ==
  /\ req[p].pc = "act_create"
  /\ payments' = Append(payments, NewPayment("activation_fee", "pending", ActivationFee,
                                             "vodafone_cash", "none", 0))
  /\ req' = [req EXCEPT ![p].pc = "act_complete", ![p].amt = Len(payments) + 1]
  /\ UNCHANGED <<booking, provider, resp, now, sockets, activeConnections, audit>>

\* payment.status = 'completed'; payment.save()
ActivationComplete(p) ==
  /\ req[p].pc = "act_complete"
  /\ payments' = [payments EXCEPT ![req[p].amt].status = "completed"]
  /\ req' = [req EXCEPT ![p].pc = "act_save", ![p].amt = 0]
  /\ UNCHANGED <<booking, provider, resp, now, sockets, activeConnections, audit>>

\* the activation flags are set on the authenticated user and saved
ActivationSave(p) ==
  /\ req[p].pc = "act_save"
  /\ provider' = [provider EXCEPT !.activationFeePaid = TRUE, !.isActivated = TRUE]
  /\ req' = [req EXCEPT ![p] = Idle]
  /\ Respond("activate", req[p].caller, "ok")
  /\ UNCHANGED <<booking, payments, now, sockets, activeConnections, audit>>

---------------------------------------------------------------------------
\* POST /api/bookings

CreateBooking(c, servicePrice, addOnsPrice, scheduledDate) ==
  /\ ~Exists
  /\ c # "other"
  /\ IF roleOf(c) # "client" THEN Refuse("create", c, "forbidden")
     ELSE IF ~isProviderActivated(provider) THEN Refuse("create", c, "not_activated")
     ELSE /\ booking' = [NoBooking EXCEPT
                           !.client = c,
                           !.provider = "provider",
                           !.service = "service",
                           !.status = "pending",
                           !.scheduledDate = scheduledDate,
                           !.servicePrice = servicePrice,
                           !.addOnsPrice = addOnsPrice,
                           !.platformFee = PlatformFee,
                           !.totalAmount = servicePrice + addOnsPrice + PlatformFee]
          /\ Respond("create", c, "ok")
          /\ UNCHANGED <<provider, payments, req, now, sockets, activeConnections, audit>>

---------------------------------------------------------------------------
\* Booking transition routes: loadBooking, requireBookingAccess, the handler's
\* checks and its assignments on the loaded copy

\* PUT /api/bookings/:id/accept
Accept(p, c) ==
  /\ CanPush(p)
  /\ IF requireBookingAccess(c) = "denied" THEN Refuse("accept", c, "forbidden")
     ELSE IF requireBookingAccess(c) # "provider" THEN Refuse("accept", c, "forbidden")
     ELSE IF booking.status # "pending" THEN Refuse("accept", c, "invalid_status")
     ELSE Proceed(p, "accept", c, "save_booking",
                  SetPath(updateStatus(Load(booking), "accepted", now),
                          "providerResponse", "accepted"), 0)

\* PUT /api/bookings/:id/reject
Reject(p, c) ==
  /\ CanPush(p)
  /\ IF requireBookingAccess(c) = "denied" THEN Refuse("reject", c, "forbidden")
     ELSE IF requireBookingAccess(c) # "provider" THEN Refuse("reject", c, "forbidden")
     ELSE IF booking.status # "pending" THEN Refuse("reject", c, "invalid_status")
     ELSE Proceed(p, "reject", c, "save_booking",
                  SetPath(updateStatus(Load(booking), "rejected", now),
                          "providerResponse", "rejected"), 0)

\* PUT /api/bookings/:id/start
StartService(p, c) ==
  /\ CanPush(p)
  /\ IF requireBookingAccess(c) = "denied" THEN Refuse("start", c, "forbidden")
     ELSE IF requireBookingAccess(c) # "provider" THEN Refuse("start", c, "forbidden")
     ELSE IF booking.status # "accepted" THEN Refuse("start", c, "invalid_status")
     ELSE Proceed(p, "start", c, "save_booking",
                  updateStatus(Load(booking), "in_progress", now), 0)

\* PUT /api/bookings/:id/complete
Complete(p, c) ==
  /\ CanPush(p)
  /\ IF requireBookingAccess(c) = "denied" THEN Refuse("complete", c, "forbidden")
     ELSE IF requireBookingAccess(c) # "provider" THEN Refuse("complete", c, "forbidden")
     ELSE IF booking.status # "in_progress" THEN Refuse("complete", c, "invalid_status")
     ELSE Proceed(p, "complete", c, "load_provider",
                  updateStatus(Load(booking), "completed", now), 0)

\* the assignments of the confirm transition
confirmBooking(m, method, t) ==
  SetPath(SetPath(SetPath(m, "clientConfirmed", TRUE), "confirmedAt", t),
          "confirmationMethod", method)

\* PUT /api/bookings/:id/confirm
Confirm(p, c) ==
  /\ CanServe(p)
  /\ IF requireBookingAccess(c) = "denied" THEN Refuse("confirm", c, "forbidden")
     ELSE IF requireBookingAccess(c) # "client" THEN Refuse("confirm", c, "forbidden")
     ELSE IF booking.status # "completed" THEN Refuse("confirm", c, "invalid_status")
     ELSE IF booking.clientConfirmed THEN Refuse("confirm", c, "already_confirmed")
     ELSE Proceed(p, "confirm", c, "load_provider",
                  confirmBooking(Load(booking), "manual", now), 0)

\* PUT /api/bookings/:id/cancel
Cancel(p, c) ==
  /\ CanPush(p)
  /\ IF requireBookingAccess(c) = "denied" THEN Refuse("cancel", c, "forbidden")
     ELSE IF ~canBeCancelled(booking, now) THEN Refuse("cancel", c, "cannot_cancel")
     ELSE Proceed(p, "cancel", c, "save_booking",
                  SetPath(updateStatus(Load(booking), "cancelled", now),
                          "cancelled", TRUE), 0)

\* booking.dispute = { isDisputed: true, disputedBy, ... }: the sub-document is
\* replaced, which drops an earlier resolution
openDispute(m, c) ==
  SetPath(SetPath(SetPath(SetPath(m, "isDisputed", TRUE), "disputedBy", c),
                  "resolved", FALSE),
          "refundAmount", 0)

\* PUT /api/bookings/:id/dispute
Dispute(p, c) ==
  /\ CanPush(p)
  /\ IF requireBookingAccess(c) = "denied" THEN Refuse("dispute", c, "forbidden")
     ELSE IF booking.status \notin {"completed", "in_progress"}
          THEN Refuse("dispute", c, "invalid_status")
     ELSE IF booking.isDisputed THEN Refuse("dispute", c, "already_disputed")
     ELSE Proceed(p, "dispute", c, "save_booking",
                  openDispute(updateStatus(Load(booking), "disputed", now), c), 0)

\* PUT /api/admin/bookings/:id/resolve-dispute
ResolveDispute(p, c, refundAmount) ==
  /\ CanPush(p)
  /\ CanPay
  /\ IF ~requireRole(c, "admin") THEN Refuse("resolve", c, "forbidden")
     ELSE IF booking.status # "disputed" THEN Refuse("resolve", c, "invalid_status")
     ELSE Proceed(p, "resolve", c, "save_booking",
                  updateStatus(
                    SetPath(SetPath(Load(booking), "resolved", TRUE),
                            "refundAmount", refundAmount),
                    "completed", now),
                  refundAmount)

---------------------------------------------------------------------------
\* The awaits of the transition routes

\* User.findById(booking.provider), then the wallet method on the loaded copy
ProviderLoad(p) ==
  /\ req[p].pc = "load_provider"
  /\ req' = [req EXCEPT
       ![p].pc = "save_provider",
       ![p].udoc = TrimUser(
                     IF req[p].op = "complete"
                     THEN addPendingEarnings(Load(provider), Earnings(req[p].bdoc.doc))
                     ELSE confirmEarnings(Load(provider), Earnings(req[p].bdoc.doc)))]
  /\ UNCHANGED <<booking, provider, payments, resp, now, sockets, activeConnections, audit>>

\* provider.save(); the confirm transition then marks the payment sub-record.
\* The audit counts what the save adds to the stored balance.
ProviderSave(p) ==
  /\ req[p].pc = "save_provider"
  /\ provider' = SaveDoc(provider, req[p].udoc)
  /\ req' = [req EXCEPT
       ![p].pc = "save_booking",
       ![p].udoc = NoUser,
       ![p].bdoc = IF req[p].op = "complete" THEN @
                   ELSE TrimBooking(SetPath(@, "paymentStatus", "completed"))]
  /\ audit' = [audit EXCEPT !.credited = @ + Max(provider'.balance - provider.balance, 0)]
  /\ UNCHANGED <<booking, payments, resp, now, sockets, activeConnections>>

\* booking.save() and the response; resolve-dispute goes on to its refund
BookingSave(p) ==
  /\ req[p].pc = "save_booking"
  /\ booking' = SaveDoc(booking, req[p].bdoc)
  /\ IF req[p].op = "resolve" /\ req[p].amt > 0
     THEN /\ req' = [req EXCEPT ![p].pc = "refund", ![p].bdoc = NoDoc]
          /\ UNCHANGED <<resp, audit>>
     ELSE /\ req' = [req EXCEPT ![p] = Idle]
          /\ Respond(req[p].op, req[p].caller, "ok")
          /\ audit' = IF req[p].op = "confirm"
                      THEN [audit EXCEPT !.confirmOk = @ + 1]
                      ELSE audit
  /\ UNCHANGED <<provider, payments, now, sockets, activeConnections>>

\* a faulty refund: the amount is also taken out of the provider's balance
RefundCreateDebit(p) ==
  /\ req[p].pc = "refund"
  /\ payments' = Append(payments, NewPayment("refund", "completed", req[p].amt,
                                             "admin_refund", "none", 0))
  /\ provider' = [provider EXCEPT !.balance = @ - req[p].amt]
  /\ req' = [req EXCEPT ![p] = Idle]
  /\ Respond("resolve", req[p].caller, "ok")
  /\ UNCHANGED <<booking, now, sockets, activeConnections, audit>>

\* Payment.create of the refund entry granted by the resolution
RefundCreate(p) ==
  /\ req[p].pc = "refund"
  /\ payments' = Append(payments, NewPayment("refund", "completed", req[p].amt,
                                             "admin_refund", "none", 0))
  /\ req' = [req EXCEPT ![p] = Idle]
  /\ Respond("resolve", req[p].caller, "ok")
  /\ UNCHANGED <<booking, provider, now, sockets, activeConnections, audit>>

---------------------------------------------------------------------------
\* POST /api/payments/withdraw

Withdraw(p, c, amount) ==
  /\ Free(p)
  /\ CanPay
  /\ LET withdrawalFee == calculatePlatformFee(amount, "withdrawal")
         totalDeduction == amount + withdrawalFee
     IN IF ~requireRole(c, "provider") THEN RefuseAmount("withdraw", c, "forbidden", amount)
        ELSE IF ~provider.isActivated
             THEN RefuseAmount("withdraw", c, "not_activated", amount)
        ELSE IF provider.balance < totalDeduction
             THEN RefuseAmount("withdraw", c, "insufficient", amount)
        ELSE IF amount < MinWithdrawal THEN RefuseAmount("withdraw", c, "failed", amount)
        ELSE /\ req' = [req EXCEPT ![p] =
                          [Idle EXCEPT !.op = "withdraw", !.caller = c,
                                       !.pc = "w_payment", !.amt = amount,
                                       !.udoc = Load([NewProvider EXCEPT
                                                        !.balance = provider.balance])]]
             /\ UNCHANGED <<booking, provider, payments, resp, now, sockets, activeConnections, audit>>

\* the withdrawal ledger entry: payment.save()
WithdrawPayment(p) ==
  /\ req[p].pc = "w_payment"
  /\ payments' = Append(payments, NewPayment("withdrawal", "processing", 0 - req[p].amt,
                                             "bank_transfer", "none", 0))
  /\ req' = [req EXCEPT ![p].pc = "w_save"]
  /\ UNCHANGED <<booking, provider, resp, now, sockets, activeConnections, audit>>

\* a faulty settlement: the deduction is also taken out of the lifetime earnings
WithdrawSaveLifetime(p) ==
  /\ req[p].pc = "w_save"
  /\ LET totalDeduction == req[p].amt + calculatePlatformFee(req[p].amt, "withdrawal")
     IN /\ provider' = [SaveDoc(provider,
                                SetPath(req[p].udoc, "balance",
                                        req[p].udoc.doc.balance - totalDeduction))
                          EXCEPT !.totalEarnings = @ - totalDeduction]
        /\ audit' = [audit EXCEPT !.withdrawn = @ + totalDeduction]
  /\ req' = [req EXCEPT ![p] = Idle]
  /\ RespondAmount("withdraw", req[p].caller, "ok", req[p].amt)
  /\ UNCHANGED <<booking, payments, now, sockets, activeConnections>>

\* wallet.balance -= totalDeduction on the copy loaded before the check; user.save()
WithdrawSave(p) ==
  /\ req[p].pc = "w_save"
  /\ LET totalDeduction == req[p].amt + calculatePlatformFee(req[p].amt, "withdrawal")
     IN /\ provider' = SaveDoc(provider,
                         SetPath(req[p].udoc, "balance",
                                 req[p].udoc.doc.balance - totalDeduction))
        /\ audit' = [audit EXCEPT !.withdrawn = @ + totalDeduction]
  /\ req' = [req EXCEPT ![p] = Idle]
  /\ RespondAmount("withdraw", req[p].caller, "ok", req[p].amt)
  /\ UNCHANGED <<booking, payments, now, sockets, activeConnections>>

---------------------------------------------------------------------------
\* POST /api/payments/activation-fee

\* the transaction id the gateway of a method returns
gatewayId(method) ==
  CASE method = "stripe" -> "pi_intent"
    [] method = "paypal" -> "paypal_order"
    [] OTHER -> "local_txn"

ActivationFeeRequest(p, c, method) ==
  /\ Free(p)
  /\ CanPay
  /\ IF ~requireRole(c, "provider") THEN Refuse("activation_fee", c, "forbidden")
     ELSE IF provider.isActivated THEN Refuse("activation_fee", c, "already_activated")
     ELSE /\ req' = [req EXCEPT ![p] = [Idle EXCEPT !.op = "activation_fee", !.caller = c,
                                          !.pc = "fee_create", !.method = method]]
          /\ UNCHANGED <<booking, provider, payments, resp, now, sockets, activeConnections, audit>>

\* payment.save(): pending for stripe, completed for the other methods
ActivationFeePayment(p) ==
  /\ req[p].pc = "fee_create"
  /\ payments' = Append(payments,
                   NewPayment("activation_fee",
                              IF req[p].method = "stripe" THEN "pending" ELSE "completed",
                              ActivationFee, req[p].method, gatewayId(req[p].method), 0))
  /\ IF req[p].method \notin {"stripe", "paypal"}
     THEN /\ req' = [req EXCEPT ![p].pc = "fee_save"]
          /\ UNCHANGED resp
     ELSE /\ req' = [req EXCEPT ![p] = Idle]
          /\ Respond("activation_fee", req[p].caller, "ok")
  /\ UNCHANGED <<booking, provider, now, sockets, activeConnections, audit>>

\* a local method activates the provider at once: user.save()
ActivationFeeSave(p) ==
  /\ req[p].pc = "fee_save"
  /\ provider' = [provider EXCEPT !.isActivated = TRUE]
  /\ req' = [req EXCEPT ![p] = Idle]
  /\ Respond("activation_fee", req[p].caller, "ok")
  /\ UNCHANGED <<booking, payments, now, sockets, activeConnections, audit>>

---------------------------------------------------------------------------
\* POST /api/payments/process: a booking never has the status 'confirmed' this
\* route asks for, so that the payment it would record is never reached

\* a faulty status test: the route asks for a status bookings do reach
PayableStatusCompleted == "completed"

\* the status the route asks for before it takes a payment
PayableStatus == "confirmed"

ProcessPayment(c, method) ==
  /\ Exists
  /\ LET totalAmount == booking.totalAmount
         platformFee == calculatePlatformFee(totalAmount, "booking")
         providerAmount == totalAmount - platformFee
         settled == method \notin {"stripe", "paypal"}
     IN IF c # "client" THEN Refuse("process", c, "forbidden")
        ELSE IF booking.status # PayableStatus THEN Refuse("process", c, "invalid_status")
        ELSE IF booking.paymentStatus = "paid" THEN Refuse("process", c, "already_paid")
        ELSE /\ Len(payments) < MaxPayments
             /\ payments' = Append(payments,
                              NewPayment("booking_payment",
                                         IF method = "stripe" THEN "pending" ELSE "completed",
                                         totalAmount, method, gatewayId(method),
                                         providerAmount))
             /\ booking' = IF settled THEN [booking EXCEPT !.paymentStatus = "paid"]
                           ELSE booking
             /\ provider' = IF settled
                            THEN [provider EXCEPT !.balance = @ + providerAmount,
                                                  !.totalEarnings = @ + providerAmount]
                            ELSE provider
             /\ Respond("process", c, "ok")
             /\ UNCHANGED <<req, now, sockets, activeConnections, audit>>

---------------------------------------------------------------------------
\* POST /api/payments/webhook/stripe

\* the id of the event the handler builds in place of the delivered one
DemoIntent == "pi_demo"

\* a delivery that concerns the Stripe payment i
StripeWebhook(i) ==
  /\ i \in 1..Len(payments)
  /\ payments[i].method = "stripe"
  /\ audit.delivered[i] < MaxDeliveries
  /\ LET found == {k \in 1..Len(payments) : payments[k].transactionId = DemoIntent}
     IN IF found = {}
        THEN UNCHANGED <<booking, provider, payments>>
        ELSE LET k == CHOOSE x \in found : TRUE
                 credit == IF payments[k].type = "booking_payment" /\ Exists
                           THEN payments[k].providerAmount ELSE 0
             IN /\ payments' = [payments EXCEPT ![k].status = "completed"]
                /\ booking' = IF payments[k].type = "booking_payment" /\ Exists
                              THEN [booking EXCEPT !.paymentStatus = "paid"]
                              ELSE booking
                /\ provider' = [provider EXCEPT !.balance = @ + credit,
                                                !.totalEarnings = @ + credit]
  /\ audit' = [audit EXCEPT !.delivered[i] = @ + 1]
  /\ Respond("webhook", "stripe", "received")
  /\ UNCHANGED <<req, now, sockets, activeConnections>>

---------------------------------------------------------------------------
\* The clock

Tick ==
  /\ now < MaxFineTime
  /\ now' = now + 1
  /\ UNCHANGED <<booking, provider, payments, req, resp, audit, sockets, activeConnections>>

\* the confirmation window goes by
Elapse ==
  /\ now + AutoConfirmHours <= MaxTime
  /\ now' = now + AutoConfirmHours
  /\ UNCHANGED <<booking, provider, payments, req, resp, audit, sockets, activeConnections>>

---------------------------------------------------------------------------
\* Every booking and wallet route, any caller, one request at a time

First == {p \in Slots : \A q \in Slots : p <= q}

Next ==
  \/ \E p \in First, c \in Users : PayActivationFee(p, c)
  \/ \E p \in First : ActivationCreate(p)
  \/ \E p \in First : ActivationComplete(p)
  \/ \E p \in First : ActivationSave(p)
  \/ \E c \in Users, sp \in ServicePrices, ao \in AddOnsPrices, sd \in ScheduledDates :
       CreateBooking(c, sp, ao, sd)
  \/ \E p \in First, c \in Users : Accept(p, c)
  \/ \E p \in First, c \in Users : Reject(p, c)
  \/ \E p \in First, c \in Users : StartService(p, c)
  \/ \E p \in First, c \in Users : Complete(p, c)
  \/ \E p \in First, c \in Users : Confirm(p, c)
  \/ \E p \in First, c \in Users : Cancel(p, c)
  \/ \E p \in First, c \in Users : Dispute(p, c)
  \/ \E p \in First, c \in Users, r \in RefundAmounts : ResolveDispute(p, c, r)
  \/ \E p \in First : ProviderLoad(p)
  \/ \E p \in First : ProviderSave(p)
  \/ \E p \in First : BookingSave(p)
  \/ \E p \in First : RefundCreate(p)
  \/ \E p \in First, c \in Users, a \in WithdrawAmounts : Withdraw(p, c, a)
  \/ \E p \in First : WithdrawPayment(p)
  \/ \E p \in First : WithdrawSave(p)
  \/ Tick

Spec == Init /\ [][Next]_vars

---------------------------------------------------------------------------
\* The routes called by the parties of the booking, two requests in flight

RaceNext ==
  \/ \E p \in Slots : PayActivationFee(p, "provider")
  \/ \E p \in Slots : ActivationCreate(p)
  \/ \E p \in Slots : ActivationComplete(p)
  \/ \E p \in Slots : ActivationSave(p)
  \/ \E sp \in ServicePrices, ao \in AddOnsPrices, sd \in ScheduledDates :
       CreateBooking("client", sp, ao, sd)
  \/ \E p \in Slots : Accept(p, "provider")
  \/ \E p \in Slots : Reject(p, "provider")
  \/ \E p \in Slots : StartService(p, "provider")
  \/ \E p \in Slots : Complete(p, "provider")
  \/ \E p \in Slots : Confirm(p, "client")
  \/ \E p \in Slots, c \in Parties : Cancel(p, c)
  \/ \E p \in Slots, c \in Parties : Dispute(p, c)
  \/ \E p \in Slots : ProviderLoad(p)
  \/ \E p \in Slots : ProviderSave(p)
  \/ \E p \in Slots : BookingSave(p)
  \/ \E p \in Slots, a \in WithdrawAmounts : Withdraw(p, "provider", a)
  \/ \E p \in Slots : WithdrawPayment(p)
  \/ \E p \in Slots : WithdrawSave(p)
  \/ Tick

RaceSpec == Init /\ [][RaceNext]_vars

---------------------------------------------------------------------------
\* The payment routes and the Stripe webhook

PayNext ==
  \/ \E p \in Slots, c \in Users : PayActivationFee(p, c)
  \/ \E p \in Slots : ActivationCreate(p)
  \/ \E p \in Slots : ActivationComplete(p)
  \/ \E p \in Slots : ActivationSave(p)
  \/ \E p \in Slots, c \in Users, m \in PaymentMethods : ActivationFeeRequest(p, c, m)
  \/ \E p \in Slots : ActivationFeePayment(p)
  \/ \E p \in Slots : ActivationFeeSave(p)
  \/ \E c \in Users, sp \in ServicePrices, ao \in AddOnsPrices, sd \in ScheduledDates :
       CreateBooking(c, sp, ao, sd)
  \/ \E c \in Users, m \in PaymentMethods : ProcessPayment(c, m)
  \/ \E i \in 1..MaxPayments : StripeWebhook(i)

PaySpec == Init /\ [][PayNext]_vars

---------------------------------------------------------------------------
\* The booking routes called by their own party, one request at a time, while
\* the confirmation window goes by.  A handler that has started runs to its end, its awaits
\* complete: weak fairness of the steps after the first.

FairNext ==
  \/ \E p \in First : PayActivationFee(p, "provider")
  \/ \E p \in First : ActivationCreate(p)
  \/ \E p \in First : ActivationComplete(p)
  \/ \E p \in First : ActivationSave(p)
  \/ \E sp \in ServicePrices, ao \in AddOnsPrices, sd \in ScheduledDates :
       CreateBooking("client", sp, ao, sd)
  \/ \E p \in First : Accept(p, "provider")
  \/ \E p \in First : StartService(p, "provider")
  \/ \E p \in First : Complete(p, "provider")
  \/ \E p \in First : Confirm(p, "client")
  \/ \E p \in First : Dispute(p, "client")
  \/ \E p \in First : ProviderLoad(p)
  \/ \E p \in First : ProviderSave(p)
  \/ \E p \in First : BookingSave(p)
  \/ Tick
  \/ Elapse

HandlersFinish ==
  \A p \in First :
    /\ WF_vars(ActivationCreate(p))
    /\ WF_vars(ActivationComplete(p))
    /\ WF_vars(ActivationSave(p))
    /\ WF_vars(ProviderLoad(p))
    /\ WF_vars(ProviderSave(p))
    /\ WF_vars(BookingSave(p))

FairSpec == Init /\ [][FairNext]_vars /\ HandlersFinish

---------------------------------------------------------------------------
\* Properties

\* the edges of the booking state machine
Edges ==
  { <<"pending", "accepted">>, <<"pending", "rejected">>,
    <<"accepted", "in_progress">>, <<"in_progress", "completed">>,
    <<"pending", "cancelled">>, <<"accepted", "cancelled">>,
    <<"in_progress", "disputed">>, <<"completed", "disputed">>,
    <<"disputed", "completed">> }

\* C1: concurrent confirmations of one completed booking take effect at most
\* once: one request is answered with success, and the balance grows by
\* servicePrice + addOnsPrice once, never twice.
C1_ConfirmOnce ==
  /\ audit.confirmOk <= 1
  /\ audit.credited <= Earnings(booking)

\* C2: the 'from' statuses of the history followed by the current status are a
\* path of the state machine that starts at pending, also when transitions race.
C2_HistoryIsPath ==
  Exists =>
    LET path == Append(booking.statusHistory, booking.status)
    IN /\ path[1] = "pending"
       /\ \A i \in 1..(Len(path) - 1) : <<path[i], path[i + 1]>> \in Edges

\* C3: the stored status changes only along the edges of the state machine;
\* the status of a rejected or cancelled booking never changes.
C3_LegalEdges ==
  [][(Exists /\ booking'.status # booking.status)
       => <<booking.status, booking'.status>> \in Edges]_vars

\* C4: no booking is both confirmed and disputed.
C4_ConfirmedXorDisputed ==
  ~(booking.clientConfirmed /\ (booking.status = "disputed" \/ booking.isDisputed))

\* C5: once the payment-succeeded webhook was delivered for a payment, the
\* payment is completed, however often the delivery is repeated.
C5_DeliveredIsCompleted ==
  \A i \in 1..Len(payments) :
    audit.delivered[i] >= 1 => payments[i].status = "completed"

\* C6: under concurrent withdrawals the balance never becomes negative and the
\* accepted withdrawals, fees included, never exceed the funds credited to the
\* balance.
C6_WithdrawalsCovered ==
  /\ provider.balance >= 0
  /\ audit.withdrawn <= audit.credited

\* the deduction of a withdrawal: the amount and its fee (2%, at least 2)
C7_Total(a) == a + Max((a * WithdrawalFeePercent) \div 100, MinWithdrawalFee)

\* a withdrawal request of the provider is refused in this step
C7_Refused ==
  /\ resp' # resp
  /\ resp'.op = "withdraw"
  /\ resp'.caller = "provider"
  /\ resp'.code # "ok"

C8_EventuallyAutoConfirmed ==
  shouldAutoConfirm(booking, now)
    ~> \/ booking.confirmationMethod = "auto"
       \/ booking.confirmationMethod = "manual"
       \/ booking.disputedBy = "client"

\* C9: once a dispute is resolved, no confirmation of the booking succeeds and
\* no earnings are moved to the balance.
C9_NoConfirmAfterResolution ==
  [][booking.resolved
       => /\ audit'.confirmOk = audit.confirmOk
          /\ audit'.credited = audit.credited]_vars

\* the callers a transition is open to; cancel and dispute either to the client
\* alone or to everyone with access to the booking
C10_Allowed(op, clientOnly) ==
  CASE op \in {"accept", "reject", "start", "complete"} -> {"provider"}
    [] op = "confirm" -> {"client"}
    [] op \in {"cancel", "dispute"} ->
         IF clientOnly THEN {"client"} ELSE {"client", "provider", "admin"}
    [] op = "resolve" -> {"admin"}
    [] OTHER -> Users \cup {"none"}

C10_Transitions ==
  {"accept", "reject", "start", "complete", "confirm", "cancel", "dispute", "resolve"}

\* a step respects the role gate: only a permitted caller's transition is in
\* flight or saved, any other caller is answered Forbidden, and a Forbidden
\* request changes nothing
C10_Gate(clientOnly) ==
  /\ \A p \in Procs : req'[p].caller \in C10_Allowed(req'[p].op, clientOnly)
  /\ (Exists /\ booking' # booking)
       => \E p \in Procs : /\ req[p].pc = "save_booking"
                           /\ req[p].caller \in C10_Allowed(req[p].op, clientOnly)
  /\ (resp' # resp /\ resp'.op \in C10_Transitions
        /\ resp'.caller \notin C10_Allowed(resp'.op, clientOnly))
       => resp'.code = "forbidden"
  /\ (resp' # resp /\ resp'.code = "forbidden")
       => UNCHANGED <<booking, provider, payments, req>>

\* C10 as stated: accept, reject, start and complete only by the provider;
\* confirm, dispute and cancel only by the client; resolution only by an admin;
\* anyone else is refused and the booking stays unchanged.
C10_RoleGate == [][C10_Gate(TRUE)]_vars

\* C10, amended: accept, reject, start and complete only by the provider;
\* confirm only by the client; cancel and dispute by whoever has access to the
\* booking (client, provider, admin); resolution only by an admin; anyone else
\* is refused and the booking stays unchanged.
C10_RoleGateAmended == [][C10_Gate(FALSE)]_vars

\* the provider has disputed the booking
C10_Witness ==
  /\ booking.status = "disputed"
  /\ booking.disputedBy = "provider"
  /\ resp = [op |-> "dispute", caller |-> "provider", code |-> "ok", amt |-> 0]

\* the client's confirm request is answered in this step
C11_ConfirmAnswered ==
  /\ resp' # resp
  /\ resp'.op = "confirm"
  /\ resp'.caller = "client"

\* C11: a confirm request on a booking that is already confirmed is rejected
\* as already confirmed and changes neither the booking nor the wallet.
C11_AlreadyConfirmedRejected ==
  [][(booking.clientConfirmed /\ C11_ConfirmAnswered)
       => /\ resp'.code = "already_confirmed"
          /\ UNCHANGED <<booking, provider, payments, req>>]_vars

\* the statuses a transition may start from
C12_Source(op) ==
  CASE op \in {"accept", "reject"} -> {"pending"}
    [] op = "start" -> {"accepted"}
    [] op = "complete" -> {"in_progress"}
    [] op = "confirm" -> {"completed"}
    [] op = "cancel" -> {"pending", "accepted"}
    [] op = "dispute" -> {"in_progress", "completed"}
    [] op = "resolve" -> {"disputed"}
    [] OTHER -> {}

\* C12: a transition requested while the stored status is no legal source of
\* it is not started; the request is rejected and leaves booking, wallet and
\* ledger unchanged.
C12_IllegalSourceRejected ==
  [][\A op \in C10_Transitions :
       (Exists /\ booking.status \notin C12_Source(op))
         => /\ \A p \in Procs : ~(req[p].pc = "idle" /\ req'[p].op = op)
            /\ (resp' # resp /\ req' = req /\ resp'.op = op)
                 => /\ resp'.code \in {"forbidden", "invalid_status", "cannot_cancel"}
                    /\ UNCHANGED <<booking, provider, payments>>]_vars

\* the provider's accept of an accepted booking was rejected
C12_Witness ==
  /\ booking.status = "accepted"
  /\ resp = [op |-> "accept", caller |-> "provider", code |-> "invalid_status", amt |-> 0]

---------------------------------------------------------------------------
\* canBeCancelled() on its own: any status, any scheduled date, any clock

Statuses ==
  {"pending", "accepted", "rejected", "in_progress", "completed", "cancelled", "disputed"}

CancelInit ==
  /\ \E s \in Statuses, sd \in 0..MaxCancelTime :
       booking = [NoBooking EXCEPT !.status = s, !.scheduledDate = sd]
  /\ now \in 0..MaxCancelTime
  /\ provider = NewProvider
  /\ payments = <<>>
  /\ req = [p \in Procs |-> Idle]
  /\ resp = [op |-> "none", caller |-> "none", code |-> "none", amt |-> 0]
  /\ audit = [confirmOk |-> 0, credited |-> 0, withdrawn |-> 0,
              delivered |-> [i \in 1..MaxPayments |-> 0]]
  /\ sockets = NoSockets
  /\ activeConnections = NoConnections

\* booking.canBeCancelled() is called and answers
CanBeCancelledCall ==
  /\ Respond("canBeCancelled", "none",
             IF canBeCancelled(booking, now) THEN "true" ELSE "false")
  /\ UNCHANGED <<booking, provider, payments, req, now, sockets, activeConnections, audit>>

CancelNext == CanBeCancelledCall

CancelSpec == CancelInit /\ [][CancelNext]_vars

\* C13: canBeCancelled() answers true exactly when the status is pending or
\* accepted and the scheduled date is strictly more than 2 hours after now;
\* at exactly 2 hours, below, and for every other status it answers false.
C13_CanBeCancelled ==
  (resp.op = "canBeCancelled")
    => /\ resp.code \in {"true", "false"}
       /\ (resp.code = "true")
            <=> /\ booking.status \in {"pending", "accepted"}
                /\ booking.scheduledDate - now > 2
       /\ (booking.scheduledDate - now = 2) => resp.code = "false"
       /\ (booking.scheduledDate - now < 2) => resp.code = "false"
       /\ (booking.status \notin {"pending", "accepted"}) => resp.code = "false"

\* a pending booking exactly 2 hours ahead was answered false
C13_Witness ==
  /\ resp.op = "canBeCancelled"
  /\ resp.code = "false"
  /\ booking.status = "pending"
  /\ booking.scheduledDate - now = 2

---------------------------------------------------------------------------
\* Every route that saves a user or is named as leaving the wallet alone, one
\* request at a time

WalletNext ==
  \/ \E p \in First : PayActivationFee(p, "provider")
  \/ \E p \in First : ActivationCreate(p)
  \/ \E p \in First : ActivationComplete(p)
  \/ \E p \in First : ActivationSave(p)
  \/ \E p \in First, m \in PaymentMethods : ActivationFeeRequest(p, "provider", m)
  \/ \E p \in First : ActivationFeePayment(p)
  \/ \E p \in First : ActivationFeeSave(p)
  \/ \E sp \in ServicePrices, ao \in AddOnsPrices, sd \in ScheduledDates :
       CreateBooking("client", sp, ao, sd)
  \/ \E p \in First : Accept(p, "provider")
  \/ \E p \in First : Reject(p, "provider")
  \/ \E p \in First : StartService(p, "provider")
  \/ \E p \in First : Complete(p, "provider")
  \/ \E p \in First : Confirm(p, "client")
  \/ \E p \in First, c \in Parties : Cancel(p, c)
  \/ \E p \in First, c \in Parties : Dispute(p, c)
  \/ \E p \in First, r \in RefundAmounts : ResolveDispute(p, "admin", r)
  \/ \E p \in First : ProviderLoad(p)
  \/ \E p \in First : ProviderSave(p)
  \/ \E p \in First : BookingSave(p)
  \/ \E p \in First : RefundCreate(p)
  \/ \E p \in First, a \in WithdrawAmounts : Withdraw(p, "provider", a)
  \/ \E p \in First : WithdrawPayment(p)
  \/ \E p \in First : WithdrawSave(p)
  \/ \E c \in Parties, m \in PaymentMethods : ProcessPayment(c, m)
  \/ \E i \in 1..MaxPayments : StripeWebhook(i)

WalletSpec == Init /\ [][WalletNext]_vars

C14_Wallet(u) == <<u.balance, u.pendingBalance, u.totalEarnings>>

\* the step is the wallet write of slot p: the save after addPendingEarnings,
\* the save after confirmEarnings, or the settlement of a withdrawal
C14_LedgerWrite(p) ==
  \/ /\ req[p].op = "complete"
     /\ req[p].pc = "save_provider"
     /\ provider'.balance = provider.balance
     /\ provider'.totalEarnings = provider.totalEarnings
  \/ /\ req[p].op = "confirm"
     /\ req[p].pc = "save_provider"
     /\ provider'.totalEarnings = provider.totalEarnings
  \/ /\ req[p].op = "withdraw"
     /\ req[p].pc = "w_save"
     /\ provider'.pendingBalance = provider.pendingBalance
     /\ provider'.totalEarnings = provider.totalEarnings

C15_PendingRaceSerialized ==
  Exists =>
    /\ Cardinality({i \in DOMAIN booking.statusHistory :
                      booking.statusHistory[i] = "pending"}) <= 1
    /\ booking.cancelled => booking.status = "cancelled"
    /\ (booking.providerResponse = "accepted") => booking.status \notin {"pending", "rejected"}
    /\ (booking.providerResponse = "rejected") => booking.status = "rejected"

\* the step belongs to a dispute or resolve-dispute request
C16_DisputeStep ==
  \/ \E p \in Procs : /\ req'[p] # req[p]
                      /\ {req[p].op, req'[p].op} \cap {"dispute", "resolve"} # {}
  \/ resp' # resp /\ resp'.op \in {"dispute", "resolve"}

\* the ledger is left alone or grows by one completed refund entry of the
\* amount the resolution grants
C16_RefundEntry ==
  \/ payments' = payments
  \/ \E p \in Procs :
       /\ req[p].op = "resolve"
       /\ req[p].amt > 0
       /\ Len(payments') = Len(payments) + 1
       /\ SubSeq(payments', 1, Len(payments)) = payments
       /\ payments'[Len(payments')].type = "refund"
       /\ payments'[Len(payments')].status = "completed"
       /\ payments'[Len(payments')].amount = req[p].amt

---------------------------------------------------------------------------
\* The status methods of the Payment model, called on a stored payment

PaymentStatuses == {"pending", "processing", "completed", "failed", "cancelled", "refunded"}
PaymentTypes == {"activation_fee", "booking_payment", "withdrawal"}

\* paymentSchema.methods.updateStatus
paymentUpdateStatus(pay, newStatus) == [pay EXCEPT !.status = newStatus]

\* paymentSchema.methods.processRefund
processRefund(pay, refundAmount) ==
  [pay EXCEPT !.refund = refundAmount, !.status = "refunded"]

PaymentInit ==
  /\ \E t1, t2 \in PaymentTypes, s1, s2 \in {"pending", "processing"} :
       payments = << NewPayment(t1, s1, ActivationFee, "stripe", "pi_intent", 0),
                     NewPayment(t2, s2, ActivationFee, "vodafone_cash", "local_txn", 0) >>
  /\ booking = NoBooking
  /\ provider = NewProvider
  /\ req = [p \in Procs |-> Idle]
  /\ resp = [op |-> "none", caller |-> "none", code |-> "none", amt |-> 0]
  /\ now = 0
  /\ audit = [confirmOk |-> 0, credited |-> 0, withdrawn |-> 0,
              delivered |-> [i \in 1..MaxPayments |-> 0]]
  /\ sockets = NoSockets
  /\ activeConnections = NoConnections

\* payment.updateStatus(newStatus); payment.save()
PaymentUpdateStatus(i, newStatus) ==
  /\ i \in 1..Len(payments)
  /\ payments' = [payments EXCEPT ![i] = paymentUpdateStatus(@, newStatus)]
  /\ UNCHANGED <<booking, provider, req, resp, now, sockets, activeConnections, audit>>

\* payment.processRefund(refundAmount, reason); payment.save()
PaymentProcessRefund(i, refundAmount) ==
  /\ i \in 1..Len(payments)
  /\ payments' = [payments EXCEPT ![i] = processRefund(@, refundAmount)]
  /\ UNCHANGED <<booking, provider, req, resp, now, sockets, activeConnections, audit>>

PaymentNext ==
  \/ \E i \in 1..MaxPayments, s \in PaymentStatuses : PaymentUpdateStatus(i, s)
  \/ \E i \in 1..MaxPayments, r \in RefundAmounts \ {0} : PaymentProcessRefund(i, r)

PaymentSpec == PaymentInit /\ [][PaymentNext]_vars

\* C17: a payment's status moves from pending or processing to completed or
\* failed once and stays; only a completed payment becomes refunded, and a
\* failed, cancelled or refunded payment never becomes completed.
C17_PaymentLifecycle ==
  [][\A i \in 1..Len(payments) :
       i <= Len(payments') =>
         LET old == payments[i].status
             new == payments'[i].status
         IN /\ old \in {"failed", "cancelled", "refunded"} => new # "completed"
            /\ (new = "refunded" /\ old # "refunded") => old = "completed"
            /\ old = "failed" => new = "failed"
            /\ old = "completed" => new \in {"completed", "refunded"}]_vars

\* C18: the client, provider and service references and the pricing snapshot
\* of a booking are set at creation, with totalAmount = servicePrice +
\* addOnsPrice + platformFee, and no later step changes any of them.
C18_SnapshotFixed ==
  [][/\ (booking'.status # "none")
          => /\ booking'.totalAmount
                  = booking'.servicePrice + booking'.addOnsPrice + booking'.platformFee
             /\ \A f \in Refs : booking'[f] # "none"
     /\ Exists => \A f \in Refs \cup Pricing : booking'[f] = booking[f]]_vars

\* a booking that went from pending to a resolved dispute and still carries the
\* snapshot of its creation
C18_Witness ==
  /\ booking.status = "completed"
  /\ booking.resolved
  /\ Len(booking.statusHistory) = MaxHist
  /\ booking.client = "client"
  /\ booking.totalAmount = booking.servicePrice + booking.addOnsPrice + PlatformFee

\* C19: however completion requests on one in-progress booking interleave,
\* addPendingEarnings takes effect once: the pending balance never holds the
\* earnings twice, and holds them once the booking is stored as completed by
\* a completion request and no confirmation has begun.
C19_PendingCreditedOnce ==
  /\ provider.pendingBalance <= Earnings(booking)
  /\ (/\ booking.status = "completed"
      /\ ~booking.resolved
      /\ audit.confirmOk = 0
      /\ \A p \in Procs : req[p].op # "confirm")
       => provider.pendingBalance = Earnings(booking)

\* C20: a complete request of the provider on an in-progress booking adds
\* servicePrice + addOnsPrice to pendingBalance, leaving balance and
\* totalEarnings as they are, and stores the booking as completed with its
\* completion time and autoConfirmAt 48 hours after it.
C20_CompleteEffects ==
  [][/\ \A p \in Procs :
          (req[p].op = "complete" /\ req[p].pc = "save_provider" /\ req'[p] # req[p])
            => /\ provider'.pendingBalance
                    = provider.pendingBalance + booking.servicePrice + booking.addOnsPrice
               /\ provider'.balance = provider.balance
               /\ provider'.totalEarnings = provider.totalEarnings
     /\ (resp' # resp /\ resp'.op = "complete" /\ resp'.code = "ok")
          => /\ resp'.caller = "provider"
             /\ booking.status = "in_progress"
             /\ booking'.status = "completed"
             /\ booking'.completedAt \in 0..now
             /\ booking'.autoConfirmAt = booking'.completedAt + 48
             /\ provider' = provider
             /\ provider.pendingBalance >= booking.servicePrice + booking.addOnsPrice]_vars

\* the provider's complete request has just been answered with success
C20_Witness ==
  /\ resp = [op |-> "complete", caller |-> "provider", code |-> "ok", amt |-> 0]
  /\ booking.status = "completed"
  /\ booking.autoConfirmAt = booking.completedAt + 48
  /\ provider.pendingBalance = booking.servicePrice + booking.addOnsPrice
  /\ provider.balance = 0
  /\ provider.totalEarnings = 0

\* C21: a confirm request of the client on a completed booking moves exactly
\* servicePrice + addOnsPrice from pendingBalance to balance, so that balance +
\* pendingBalance and totalEarnings are as before, and stores the booking as
\* confirmed, with confirmedAt, the method and the payment sub-record completed.
C21_ConfirmEffects ==
  [][/\ \A p \in Procs :
          (req[p].op = "confirm" /\ req[p].pc = "save_provider" /\ req'[p] # req[p])
            => /\ provider'.pendingBalance
                    = provider.pendingBalance - (booking.servicePrice + booking.addOnsPrice)
               /\ provider'.balance
                    = provider.balance + (booking.servicePrice + booking.addOnsPrice)
               /\ provider'.balance + provider'.pendingBalance
                    = provider.balance + provider.pendingBalance
               /\ provider'.totalEarnings = provider.totalEarnings
     /\ (resp' # resp /\ resp'.op = "confirm" /\ resp'.code = "ok")
          => /\ resp'.caller = "client"
             /\ booking.status = "completed"
             /\ ~booking.clientConfirmed
             /\ booking'.clientConfirmed
             /\ booking'.confirmedAt \in 0..now
             /\ booking'.confirmationMethod = "manual"
             /\ booking'.paymentStatus = "completed"
             /\ provider' = provider]_vars

\* the client's confirm request has just been answered with success
C21_Witness ==
  /\ resp = [op |-> "confirm", caller |-> "client", code |-> "ok", amt |-> 0]
  /\ booking.clientConfirmed
  /\ booking.confirmedAt # NoTime
  /\ booking.paymentStatus = "completed"
  /\ provider.pendingBalance = 0
  /\ provider.balance = booking.servicePrice + booking.addOnsPrice

\* C22: a payment record the payments routes create for stripe or paypal is
\* pending until a confirmation arrives for it, and one they create for a
\* local mobile-wallet method is completed.
C22_StatusByMethod ==
  \A i \in 1..Len(payments) :
    /\ (/\ payments[i].type \in {"activation_fee", "booking_payment"}
        /\ payments[i].method \in {"stripe", "paypal"}
        /\ audit.delivered[i] = 0)
         => payments[i].status = "pending"
    /\ (payments[i].transactionId = gatewayId("vodafone_cash"))
         => payments[i].status = "completed"

\* C23: once a local mobile-wallet activation-fee payment is answered with
\* success, the provider passes isProviderActivated(), the check that gates
\* service and booking creation.
C23_ActivatedAtOnce ==
  [][(/\ resp' # resp
      /\ resp'.op = "activation_fee"
      /\ resp'.code = "ok"
      /\ \E p \in Procs : req[p].pc = "fee_save" /\ req'[p].pc = "idle")
       => isProviderActivated(provider')]_vars

---------------------------------------------------------------------------
\* The socket event booking_status_update, next to the booking routes called by
\* their own party

\* socket.on('booking_status_update'): the event names a status; whoever has
\* access to the booking has it broadcast to the booking room
BookingStatusUpdate(c, status) ==
  IF ~Exists THEN Refuse("booking_status_update", c, "not_found")
  ELSE IF requireBookingAccess(c) = "denied"
       THEN Refuse("booking_status_update", c, "forbidden")
  ELSE /\ Respond("booking_status_changed", c, status)
       /\ UNCHANGED <<booking, provider, payments, req, now, sockets, activeConnections, audit>>

SocketNext ==
  \/ \E p \in First : PayActivationFee(p, "provider")
  \/ \E p \in First : ActivationCreate(p)
  \/ \E p \in First : ActivationComplete(p)
  \/ \E p \in First : ActivationSave(p)
  \/ \E sp \in ServicePrices, ao \in AddOnsPrices, sd \in ScheduledDates :
       CreateBooking("client", sp, ao, sd)
  \/ \E p \in First : Accept(p, "provider")
  \/ \E p \in First : Reject(p, "provider")
  \/ \E p \in First : StartService(p, "provider")
  \/ \E p \in First : Complete(p, "provider")
  \/ \E p \in First : Confirm(p, "client")
  \/ \E p \in First, c \in Parties : Cancel(p, c)
  \/ \E p \in First, c \in Parties : Dispute(p, c)
  \/ \E p \in First : ProviderLoad(p)
  \/ \E p \in First : ProviderSave(p)
  \/ \E p \in First : BookingSave(p)
  \/ \E c \in Users, s \in Statuses : BookingStatusUpdate(c, s)

SocketSpec == Init /\ [][SocketNext]_vars

\* C25: a booking_status_changed event broadcast to the booking room names the
\* status stored for the booking at that moment.
C25_BroadcastIsStored ==
  [][(resp' # resp /\ resp'.op = "booking_status_changed")
       => resp'.code = booking.status]_vars

\* C26: the provider's pendingBalance is never negative: earnings are confirmed
\* for a booking only after they were added as pending for it.
C26_PendingNonNegative ==
  provider.pendingBalance >= 0

\* C27: completedAt and autoConfirmAt are set once, by the save of the
\* provider's complete request, and no later step changes either.
C27_CompletionTimeFixed ==
  [][/\ (booking.completedAt # NoTime)
          => /\ booking'.completedAt = booking.completedAt
             /\ booking'.autoConfirmAt = booking.autoConfirmAt
     /\ (Exists /\ <<booking'.completedAt, booking'.autoConfirmAt>>
                     # <<booking.completedAt, booking.autoConfirmAt>>)
          => \E p \in Procs : req[p].op = "complete" /\ req[p].pc = "save_booking"]_vars

\* C28: at most one activation-fee payment of the provider is completed: after
\* a successful one, either activation endpoint rejects the next request
\* without creating a payment.
C28_OneActivationPayment ==
  Cardinality({i \in 1..Len(payments) :
                 payments[i].type = "activation_fee" /\ payments[i].status = "completed"}) <= 1

---------------------------------------------------------------------------
\* A booking that provider and client carry through accept, start, complete and
\* confirm while the client keeps asking to pay for it: every route that can
\* act does act in the end

PayFairNext ==
  \/ \E p \in First : PayActivationFee(p, "provider")
  \/ \E p \in First : ActivationCreate(p)
  \/ \E p \in First : ActivationComplete(p)
  \/ \E p \in First : ActivationSave(p)
  \/ \E sp \in ServicePrices, ao \in AddOnsPrices, sd \in ScheduledDates :
       CreateBooking("client", sp, ao, sd)
  \/ \E p \in First : Accept(p, "provider")
  \/ \E p \in First : StartService(p, "provider")
  \/ \E p \in First : Complete(p, "provider")
  \/ \E p \in First : Confirm(p, "client")
  \/ \E p \in First : ProviderLoad(p)
  \/ \E p \in First : ProviderSave(p)
  \/ \E p \in First : BookingSave(p)
  \/ \E m \in PaymentMethods : ProcessPayment("client", m)
  \/ Tick

PartiesGoOn ==
  /\ HandlersFinish
  /\ \A p \in First :
       /\ WF_vars(PayActivationFee(p, "provider"))
       /\ WF_vars(Accept(p, "provider"))
       /\ WF_vars(StartService(p, "provider"))
       /\ WF_vars(Complete(p, "provider"))
       /\ WF_vars(Confirm(p, "client"))
  /\ WF_vars(\E sp \in ServicePrices, ao \in AddOnsPrices, sd \in ScheduledDates :
               CreateBooking("client", sp, ao, sd))
  /\ \A m \in PaymentMethods : WF_vars(ProcessPayment("client", m))

PayFairSpec == Init /\ [][PayFairNext]_vars /\ PartiesGoOn

\* no payment request for a booking is ever accepted
C29_NeverAccepted ==
  /\ ~(resp.op = "process" /\ resp.code = "ok")
  /\ \A i \in 1..Len(payments) : payments[i].type # "booking_payment"

\* C29: a created booking reaches a status in which the booking-payment route
\* accepts it: while the parties carry the booking on and the client asks to
\* pay, a payment request is accepted in the end and its payment recorded.
C29_PaymentAccepted ==
  Exists ~> (\E i \in 1..Len(payments) : payments[i].type = "booking_payment")

\* ---------------------------------------------------------------------
\* Socket connections (User.js: setupSocketHandlers)
\* ---------------------------------------------------------------------

\* getOnlineUsersCount(): activeConnections.size
getOnlineUsersCount == Cardinality({u \in SocketUsers : activeConnections[u] # 0})

\* isUserOnline(userId): activeConnections.has(userId)
isUserOnline(userId) == activeConnections[userId] # 0

\* the sockets a user has open
OpenSockets(userId) == {s \in SocketIds : sockets[s] = userId}

\* io.on('connection'): an authenticated socket of user u opens;
\* activeConnections.set(socket.userId, {socketId: socket.id, ...})
Connect(s, u) ==
  /\ sockets[s] = "none"
  /\ sockets' = [sockets EXCEPT ![s] = u]
  /\ activeConnections' = [activeConnections EXCEPT ![u] = s]
  /\ UNCHANGED <<booking, provider, payments, req, resp, now, audit>>

\* socket.on('disconnect'): activeConnections.delete(socket.userId)
Disconnect(s) ==
  /\ sockets[s] # "none"
  /\ sockets' = [sockets EXCEPT ![s] = "none"]
  /\ activeConnections' = [activeConnections EXCEPT ![sockets[s]] = 0]
  /\ UNCHANGED <<booking, provider, payments, req, resp, now, audit>>

ConnNext ==
  \/ \E s \in SocketIds, u \in SocketUsers : Connect(s, u)
  \/ \E s \in SocketIds : Disconnect(s)

ConnSpec == Init /\ [][ConnNext]_vars

\* C30: a user is reported online (isUserOnline) exactly when the user has
\* at least one open socket connection, in every interleaving of connect
\* and disconnect events, several connections of one user included.
C30_OnlineIffConnected ==
  \A u \in SocketUsers : isUserOnline(u) <=> OpenSockets(u) # {}

====
